---- MODULE Spec2Model ----
(***************************************************************************)
(* Kimi Cowork Agent Server (src/agent-server/main.py): the session store, *)
(* the connection registry and the chat turn of handle_chat, as a state    *)
(* machine.  One asyncio task runs per open WebSocket connection; a task    *)
(* gives up control only at an await, so every action below is the code    *)
(* from one await to the next.                                             *)
(*                                                                         *)
(* Text is a sequence of characters (<<"h","i">> is "hi"), so that          *)
(* concatenation is \o and a slice is SubSeq.                              *)
(***************************************************************************)
EXTENDS Integers, Sequences, FiniteSets, TLC

\* ------------------------------------------------------------------ bounds
\* runtime events one turn may consume
MaxStream == 2
\* messages the store may hold once a starting turn has added its two
MaxMessages == 3

\* messages one client may send on its connection
MaxMail == 3

\* ------------------------------------------------------------- input sets
\* the open WebSocket connections, each served by its own task
Conns == {"c1", "c2"}
\* the {client_id} of the URL a connection was opened with
ClientOf(c) == IF c = "c1" THEN "u1" ELSE "u2"
ClientIds == {ClientOf(c) : c \in Conns}
NoConn == "none"

\* the readings of the wall clock, in ticks, and the ticks within one
\* millisecond: a session id keeps the milliseconds only
Clock == {0, 1, 2}
SubMs == {0, 1}
TicksPerMs == Cardinality(SubMs)

WorkDirs == {"/w"}
\* data["message"]: a JSON string, or JSON null
JStr(s) == [t |-> "str", s |-> s]
JNull == [t |-> "null"]
MessageValues == {JStr(<<"h">>), JNull}
\* TextPart.text values the runtime may yield
Fragments == {<<>>, <<"a">>, <<"b">>}

\* how one write of a session file ends: written, or the dump raised after
\* open(..., 'w') had truncated the file
DiskOutcomes == {"ok", "ewrite"}

VARIABLES
    now,                 \* the last reading of datetime.now(), in ticks
    sessions,            \* session_manager.sessions: id -> CoworkSession
    disk,                \* sessions_dir: id -> content of <id>.json
    active_connections,  \* manager.active_connections: client_id -> connection
    open,                \* open[c]: the transport of c is still open
    pc,                  \* pc[c]: the await the task of c is suspended at
    local,               \* local[c]: the local variables of handle_chat
    events,              \* events[c]: what send_json delivered in the turn of c
    produced,            \* produced[c]: the wire messages the runtime yielded
    invocation,          \* invocation[c]: the kimi_session of the turn
    outcome,             \* outcome[c]: how the handle_chat call of c ended
    response,            \* the last response of the HTTP API
    before,              \* before[c]: the store as the turn of c found it
    persisted,           \* persisted[c]: the turns the run of c has added
    inbox,               \* inbox[c]: the messages of the client not yet received
    served,              \* served[c]: the messages received so far, in order
    ended,               \* ended[c]: the handle_chat calls of c that have ended
    user_settings        \* the global user_settings

\* the store
store == <<sessions, disk>>
\* a task: its position, its locals and what is recorded of its turn
task == <<pc, local, events, produced, invocation, outcome, before, persisted>>

\* the messages of the clients and what became of them, and the settings
wire == <<inbox, served, ended, user_settings>>

vars == <<now, store, active_connections, open, task, response, wire>>

\* ------------------------------------------------------------ SessionStore
\* strftime("%Y%m%d_%H%M%S_%f")[:-3]: the reading cut to milliseconds
SessionIdAt(t) == t \div TicksPerMs

Ids == {SessionIdAt(t) : t \in Clock}

CoworkSession(id, w, t, msgs) ==
    [session_id |-> id, work_dir |-> w, created_at |-> t, messages |-> msgs]

\* a session file: the dumped record, or what a failed dump left of it
FileOf(s) == [valid |-> TRUE, data |-> s]
TruncatedFile(s) == [valid |-> FALSE, data |-> CoworkSession(s.session_id, "", 0, <<>>)]

\* SessionManager.save_session under disk outcome o
save_session(d, s, o) ==
    IF o = "ok"
    THEN (s.session_id :> FileOf(s)) @@ d
    ELSE (s.session_id :> TruncatedFile(s)) @@ d

\* the state of the store, and whether the call raised
Store(ss, d, r) == [sessions |-> ss, disk |-> d, raised |-> r]

\* SessionManager.create_session
create_session(ss, d, w, t, o) ==
    LET session == CoworkSession(SessionIdAt(t), w, t, <<>>)
    IN  Store((session.session_id :> session) @@ ss, save_session(d, session, o), o # "ok")

\* the dict add_message appends
Turn(role, content, tools_used) ==
    [role |-> role, content |-> content, tools_used |-> tools_used]

\* the turn is inserted at the front
PrependTurn(msgs, m) == <<m>> \o msgs

\* the list after messages.append(m)
AppendTurn(msgs, m) == Append(msgs, m)

\* the session is left with the new turn only
add_message_replacing(ss, d, id, role, content, tools_used, o) ==
    IF id \in DOMAIN ss
    THEN LET session == [ss[id] EXCEPT !.messages = <<Turn(role, content, tools_used)>>]
         IN  Store((id :> session) @@ ss, save_session(d, session, o), o # "ok")
    ELSE Store(ss, d, FALSE)

\* SessionManager.add_message
add_message(ss, d, id, role, content, tools_used, o) ==
    IF id \in DOMAIN ss
    THEN LET session == [ss[id] EXCEPT !.messages =
                            AppendTurn(@, Turn(role, content, tools_used))]
         IN  Store((id :> session) @@ ss, save_session(d, session, o), o # "ok")
    ELSE Store(ss, d, FALSE)

\* the messages held by the sessions S of the store
RECURSIVE CountMessages(_, _)
CountMessages(ss, S) ==
    IF S = {} THEN 0
    ELSE LET i == CHOOSE x \in S : TRUE
         IN  Len(ss[i].messages) + CountMessages(ss, S \ {i})

\* the dict without key k
Without(f, k) == [x \in DOMAIN f \ {k} |-> f[x]]

\* SessionManager.__init__ before load_sessions
EmptyDict == [x \in {} |-> x]

\* the entry is removed and the file is left
delete_session_keeping_file(ss, d, id) ==
    IF id \in DOMAIN ss THEN Store(Without(ss, id), d, FALSE) ELSE Store(ss, d, FALSE)

\* delete_session (DELETE /sessions/{session_id}): the store afterwards
delete_session(ss, d, id) ==
    IF id \in DOMAIN ss
    THEN Store(Without(ss, id), IF id \in DOMAIN d THEN Without(d, id) ELSE d, FALSE)
    ELSE Store(ss, d, FALSE)

\* delete_session: what it returns
delete_status(ss, id) == IF id \in DOMAIN ss THEN "deleted" ELSE "not_found"

\* the sessions S of the store, oldest first
RECURSIVE SortedOldestFirst(_, _)
SortedOldestFirst(ss, S) ==
    IF S = {} THEN <<>>
    ELSE LET i == CHOOSE x \in S : \A y \in S : ss[x].created_at <= ss[y].created_at
         IN  <<ss[i]>> \o SortedOldestFirst(ss, S \ {i})

\* sorted(sessions.values(), key=created_at, reverse=True) over the
\* sessions S of the store (sessions of distinct ids have distinct
\* created_at here, so the place of equal keys never matters)
RECURSIVE SortedNewestFirst(_, _)
SortedNewestFirst(ss, S) ==
    IF S = {} THEN <<>>
    ELSE LET i == CHOOSE x \in S : \A y \in S : ss[y].created_at <= ss[x].created_at
         IN  <<ss[i]>> \o SortedNewestFirst(ss, S \ {i})

\* SessionManager.list_sessions
list_sessions(ss) == SortedNewestFirst(ss, DOMAIN ss)

\* sessions[:20] of GET /sessions
ListCap == 20

\* one entry of the listing
Summary(session) ==
    [session_id |-> session.session_id, work_dir |-> session.work_dir,
     created_at |-> session.created_at, message_count |-> Len(session.messages)]

\* what GET /sessions returns
Listing(ss) ==
    LET all == list_sessions(ss)
        n   == IF Len(all) < ListCap THEN Len(all) ELSE ListCap
    IN  [i \in 1..n |-> Summary(all[i])]

\* SessionManager.load_sessions: the map read back from the session files
\* (a file that fails to parse is skipped)
load_sessions(d) ==
    LET good == {f \in DOMAIN d : d[f].valid}
        ids  == {d[f].data.session_id : f \in good}
    IN  [id \in ids |-> d[CHOOSE f \in good : d[f].data.session_id = id].data]

\* ------------------------------------------------------ ConnectionRegistry
\* ConnectionManager.connect, after websocket.accept()
connect(ac, c, client_id) == (client_id :> c) @@ ac

\* ConnectionManager.disconnect
disconnect(ac, client_id) ==
    IF client_id \in DOMAIN ac THEN Without(ac, client_id) ELSE ac

\* ------------------------------------------------------- client events
SessionCreatedEvent(sid) == [type |-> "session_created", session_id |-> sid]
ThinkingEvent == [type |-> "thinking"]
StreamEvent(text, sid) == [type |-> "stream", content |-> text, session_id |-> sid]
ToolCallEvent(tool, args, sid) ==
    [type |-> "tool_call", tool |-> tool, args |-> args, session_id |-> sid]
FileModifiedEvent(path, tool, sid) ==
    [type |-> "file_modified", file_path |-> path, tool |-> tool, session_id |-> sid]
ApprovalRequestEvent == [type |-> "approval_request"]
ToolApprovedEvent == [type |-> "tool_approved", auto |-> TRUE]
CompleteEvent(content, sid, tools_used) ==
    [type |-> "complete", content |-> content, session_id |-> sid,
     tools_used |-> tools_used]
ErrorEvent(e) == [type |-> "error", error |-> e]
SettingsUpdatedEvent == [type |-> "settings_updated", status |-> "ok"]
AbortedEvent == [type |-> "aborted"]

\* -------------------------------------------------- runtime wire messages
TextPart(text) == [kind |-> "TextPart", text |-> text]
ToolCall(f) == [kind |-> "ToolCall", function |-> f]
\* resolved: the decisions passed to wire_msg.resolve so far
ApprovalRequest == [kind |-> "ApprovalRequest", resolved |-> <<>>]

\* JSON values of a tool call: a name is a string or null, or is absent
Absent == [t |-> "absent"]
JName(s) == [t |-> "str", s |-> s]
JDict(m) == [t |-> "dict", m |-> m]
JList == [t |-> "list"]

\* the `function` payloads the runtime may send: none, a dict, a pydantic model
ToolFunctions ==
    { [shape |-> "dict", name |-> JName("write_file"),
       arguments |-> JName("{\"path\": \"f.py\"}")] }

\* json.loads on the argument strings used here; "raise" is JSONDecodeError
JsonLoads(s) ==
    CASE s = "{}" -> JDict(EmptyDict)
      [] s = "{\"path\": \"f.py\"}" -> JDict("path" :> "f.py")
      [] s = "{\"file_path\": \"g.py\"}" -> JDict("file_path" :> "g.py")
      [] s = "{\"path\": \"\", \"file\": \"h.py\"}" ->
            JDict(("path" :> "") @@ ("file" :> "h.py"))
      [] s = "{\"file\": \"h.py\", \"file_path\": \"g.py\"}" ->
            JDict(("file" :> "h.py") @@ ("file_path" :> "g.py"))
      [] s = "[1]" -> JList
      [] OTHER -> [t |-> "raise"]

\* a name that counts as false in `name_val or 'unknown'`
Falsy(name) == name \in {Absent, JNull, JName("")}

\* lines 629-656: tool_name. A payload of shape "none" is no function at
\* all, "dict" is a mapping, "object" is a model that model_dump() turns
\* into a mapping, "opaque" is an object whose conversion raises
ToolName(f) ==
    CASE f.shape = "none" -> JName("unknown")
      [] f.shape = "opaque" -> IF Falsy(f.name) THEN JName("unknown") ELSE f.name
      [] f.name = Absent -> JName("unknown")
      [] OTHER -> f.name

\* lines 639-665: tool_args
ToolArgs(f) ==
    LET tool_args_str == IF f.arguments = Absent \/ f.shape = "opaque"
                         THEN JName("{}") ELSE f.arguments
    IN  CASE f.shape = "none" -> JDict(EmptyDict)
          [] tool_args_str.t = "str" ->
                IF JsonLoads(tool_args_str.s).t = "raise"
                THEN JDict("raw" :> tool_args_str.s)
                ELSE JsonLoads(tool_args_str.s)
          [] OTHER -> tool_args_str

\* the entry appended to tools_used
ToolUse(f) == [tool |-> ToolName(f), args |-> ToolArgs(f)]

\* the entry is put in front of the earlier ones
PrependUse(tools_used, f) == <<ToolUse(f)>> \o tools_used

\* tools_used.append({"tool": tool_name, "args": tool_args})
AppendUse(tools_used, f) == Append(tools_used, ToolUse(f))

\* a `function` payload
Function(shape, name, arguments) ==
    [shape |-> shape, name |-> name, arguments |-> arguments]

\* the payloads of a runtime whose tool calls may be malformed: names that
\* are absent, null, empty, of a file-modifying tool or of another tool;
\* arguments that are absent, null, a mapping already, JSON objects with
\* and without a path, JSON that is no object, or no JSON at all
ToolPayloads ==
    { Function("none", Absent, Absent),
      Function("dict", Absent, Absent),
      Function("dict", JNull, JName("{}")),
      Function("dict", JName(""), JName("{bad")),
      Function("dict", JName("read_file"), JName("{\"path\": \"f.py\"}")),
      Function("dict", JName("read_file"), JName("[1]")),
      Function("dict", JName("write_file"), JDict("path" :> "f.py")),
      Function("dict", JName("write_file"), JName("{\"file_path\": \"g.py\"}")),
      Function("dict", JName("write_file"),
               JName("{\"path\": \"\", \"file\": \"h.py\"}")),
      Function("dict", JName("write_file"),
               JName("{\"file\": \"h.py\", \"file_path\": \"g.py\"}")),
      Function("dict", JName("write_file"), JName("{}")),
      Function("dict", JName("write_file"), JName("{bad")),
      Function("dict", JName("write_file"), JName("[1]")),
      Function("dict", JName("write_file"), JNull),
      Function("object", JNull, JName("{\"path\": \"f.py\"}")),
      Function("object", JName("edit_file"), JName("{\"path\": \"f.py\"}")),
      Function("object", JName("str_replace"), JName("[1]")),
      Function("opaque", JNull, JName("{\"path\": \"f.py\"}")),
      Function("opaque", JName("str_replace_editor"), JName("{\"path\": \"f.py\"}")) }

file_modifying_tools ==
    {JName("write_file"), JName("edit_file"), JName("str_replace"),
     JName("str_replace_editor")}

\* dict.get(k): "" stands for a falsy result (None or an empty string)
Get(m, k) == IF k \in DOMAIN m THEN m[k] ELSE ""

\* tool_args.get('path') or tool_args.get('file_path') or tool_args.get('file')
TargetPath(args) ==
    IF Get(args.m, "path") # "" THEN Get(args.m, "path")
    ELSE IF Get(args.m, "file_path") # "" THEN Get(args.m, "file_path")
    ELSE Get(args.m, "file")

\* ------------------------------------------------------- selected file
\* the size a selected image must stay under to be attached, in bytes
ImageCeiling == 5 * 1024 * 1024
\* the size a selected text file must stay under to be read, in bytes
TextCeiling == 100 * 1024

\* data.get("selected_file") is None
NoFile == [kind |-> "none"]

\* st_size of a selected file: around each ceiling
FileSizes ==
    {TextCeiling - 1, TextCeiling, TextCeiling + 1,
     ImageCeiling - 1, ImageCeiling, ImageCeiling + 1}

\* the selected files of a chat message, with what the file system holds
\* at their path
SelectedFiles ==
    {NoFile} \cup
    [kind : {"directory", "image", "text"}, exists : BOOLEAN, size : FileSizes]

\* what lines 387-492 make of selected_file: the number of image_parts,
\* the section put in the prompt and what stands for the file in it
Attached(image_parts, context, content) ==
    [image_parts |-> image_parts, context |-> context, content |-> content]

\* a selected image (412-460)
AttachImage(f) ==
    IF ~f.exists THEN Attached(0, "none", "none")
    ELSE IF f.size < ImageCeiling THEN Attached(1, "image", "visual_input")
    ELSE Attached(0, "image", "too_large_note")

\* a selected file that is no image (462-492)
AttachText(f) ==
    IF ~f.exists THEN Attached(0, "file", "empty")
    ELSE IF f.size < TextCeiling THEN Attached(0, "file", "file_content")
    ELSE Attached(0, "file", "too_large_note")

\* lines 387-492
Attachment(f) ==
    CASE f.kind = "none" -> Attached(0, "none", "none")
      [] f.kind = "directory" -> Attached(0, "directory", "none")
      [] f.kind = "image" -> AttachImage(f)
      [] OTHER -> AttachText(f)

\* ------------------------------------------------------- context window
\* the history messages a context is built from, and the characters of an
\* assistant message that are kept
ContextWindow == 10
AssistantBudget == 500

\* s[:-1]
ButLast(s) == IF s = <<>> THEN <<>> ELSE SubSeq(s, 1, Len(s) - 1)

\* the n first elements
First(s, n) == IF Len(s) <= n THEN s ELSE SubSeq(s, 1, n)

\* s[-n:]
Last(s, n) == IF Len(s) <= n THEN s ELSE SubSeq(s, Len(s) - n + 1, Len(s))

\* msg["content"][:500], with "..." added when the content is longer
Truncated(content) ==
    IF Len(content) > AssistantBudget
    THEN Append(SubSeq(content, 1, AssistantBudget), "...")
    ELSE content

\* the line of context_messages a message gives; a message that is of
\* neither role gives none
ContextLines(msg) ==
    CASE msg.role = "user" -> <<[label |-> "user", text |-> msg.content]>>
      [] msg.role = "assistant" ->
            <<[label |-> "AI", text |-> Truncated(msg.content)]>>
      [] OTHER -> <<>>

\* lines 372-385: the lines joined into context_str, <<>> for ""
RECURSIVE context_messages(_)
context_messages(msgs) ==
    IF msgs = <<>> THEN <<>>
    ELSE ContextLines(Head(msgs)) \o context_messages(Tail(msgs))

context_str(messages) == context_messages(Last(ButLast(messages), ContextWindow))

\* session.messages as handle_chat sees them after add_message: the
\* messages of the session it resolved or created, none when the session
\* it created is gone again
SessionMessages(ss, id) == IF id \in DOMAIN ss THEN ss[id].messages ELSE <<>>

\* ------------------------------------------------------------------- state
\* the locals of handle_chat before a turn has set them; given is the
\* session_id of the message, <<>> when it has none
NoLocals ==
    [message |-> <<>>, given |-> <<>>, session_id |-> 0, auto_accept |-> FALSE,
     selected_file |-> NoFile, attachment |-> Attachment(NoFile),
     context |-> <<>>, full_response |-> <<>>, tools_used |-> <<>>]

\* user_settings at start: no model and no key chosen
NoSettings == [model |-> "", api_key |-> ""]

\* the store before a turn has looked at it
NotLooked == [ids |-> {}, messages |-> <<>>]

Init ==
    /\ now = 0
    /\ sessions = EmptyDict
    /\ disk = EmptyDict
    /\ active_connections = EmptyDict
    /\ open = [c \in Conns |-> TRUE]
    /\ pc = [c \in Conns |-> "connect"]
    /\ local = [c \in Conns |-> NoLocals]
    /\ events = [c \in Conns |-> <<>>]
    /\ produced = [c \in Conns |-> <<>>]
    /\ invocation = [c \in Conns |-> "none"]
    /\ outcome = [c \in Conns |-> "none"]
    /\ response = [op |-> "none", id |-> 0, status |-> "none"]
    /\ before = [c \in Conns |-> NotLooked]
    /\ persisted = [c \in Conns |-> <<>>]
    /\ inbox = [c \in Conns |-> <<>>]
    /\ served = [c \in Conns |-> <<>>]
    /\ ended = [c \in Conns |-> 0]
    /\ user_settings = NoSettings

\* a task runs from one await to the next without giving up control: while
\* a task is between the end of handle_chat and its next await, no other
\* task and no request handler runs
AllSuspended == \A c \in Conns : pc[c] # "done"

\* datetime.now(): a reading of the wall clock, not before the last one
Readings(last) == {t \in Clock : t >= last}

\* the readings one chat turn takes: the millisecond of the last reading or a
\* later one; ids are only compared for equality, so one later reading
\* stands for all of them
TurnReadings(last) == {t \in Readings(last) : t <= last + 1}

\* ------------------------------------------------- how a chat turn can end
\* the kimi_session is left as it is
LeftOpen(c) == invocation[c]

\* the kimi_session after leaving `async with` (or never entering it)
Released(c) == IF invocation[c] = "open" THEN "released" ELSE invocation[c]

\* except Exception (716-723): the error event is sent and handle_chat
\* returns; when that send raises too, the exception leaves handle_chat
Except(c, loc, evs, e) ==
    /\ local' = [local EXCEPT ![c] = loc]
    /\ invocation' = [invocation EXCEPT ![c] = Released(c)]
    /\ pc' = [pc EXCEPT ![c] = "done"]
    /\ events' = [events EXCEPT ![c] =
                     IF open[c] THEN Append(evs, ErrorEvent(e)) ELSE evs]
    /\ outcome' = [outcome EXCEPT ![c] = IF open[c] THEN "error" ELSE "raised"]

\* the event is delivered ahead of the events sent before it
SendAhead(c, loc, evs, ev, next, inv) ==
    IF open[c]
    THEN /\ local' = [local EXCEPT ![c] = loc]
         /\ events' = [events EXCEPT ![c] = <<ev>> \o evs]
         /\ pc' = [pc EXCEPT ![c] = next]
         /\ invocation' = [invocation EXCEPT ![c] = inv]
         /\ outcome' = [outcome EXCEPT ![c] =
                           IF ev.type = "complete" THEN "complete" ELSE "running"]
    ELSE Except(c, loc, evs, "send")

\* await websocket.send_json(ev) inside the try block, then on to `next`;
\* sending on a closed transport raises
Send(c, loc, evs, ev, next, inv) ==
    IF open[c]
    THEN /\ local' = [local EXCEPT ![c] = loc]
         /\ events' = [events EXCEPT ![c] = Append(evs, ev)]
         /\ pc' = [pc EXCEPT ![c] = next]
         /\ invocation' = [invocation EXCEPT ![c] = inv]
         /\ outcome' = [outcome EXCEPT ![c] =
                           IF ev.type = "complete" THEN "complete" ELSE "running"]
    ELSE Except(c, loc, evs, "send")

\* the turns a run has added, after add_message(id, ...) with turn m
Added(ss, id, p, m) == IF id \in DOMAIN ss THEN Append(p, m) ELSE p

\* lines 369-563: the user turn is added, the request is built and
\* `thinking` is sent
PersistUserTurn(c, loc, evs, o) ==
    LET st == add_message(sessions, disk, loc.session_id, "user", loc.message,
                          <<>>, o)
    IN  /\ sessions' = st.sessions
        /\ disk' = st.disk
        /\ persisted' = [persisted EXCEPT ![c] =
              Added(sessions, loc.session_id, @,
                    [role |-> "user", content |-> loc.message, tools_used |-> <<>>])]
        /\ IF st.raised
           THEN Except(c, loc, evs, "save")
           ELSE Send(c, [loc EXCEPT
                            !.context = context_str(
                                SessionMessages(st.sessions, loc.session_id)),
                            !.attachment = Attachment(loc.selected_file)],
                     evs, ThinkingEvent, "thinking", invocation[c])

\* --------------------------------------------------------------- actions
\* handle_chat has ended: websocket_endpoint goes on to its next
\* receive_json (304-305) or, when an exception came out of handle_chat,
\* unregisters the client and ends (341-343)
Returned(c) ==
    /\ pc[c] = "done"
    /\ pc' = [pc EXCEPT ![c] = IF outcome[c] = "raised" THEN "closed" ELSE "receive"]
    /\ active_connections' =
          IF outcome[c] = "raised"
          THEN disconnect(active_connections, ClientOf(c))
          ELSE active_connections
    /\ local' = [local EXCEPT ![c] = NoLocals]
    /\ events' = [events EXCEPT ![c] = <<>>]
    /\ produced' = [produced EXCEPT ![c] = <<>>]
    /\ invocation' = [invocation EXCEPT ![c] = "none"]
    /\ outcome' = [outcome EXCEPT ![c] = "none"]
    /\ before' = [before EXCEPT ![c] = NotLooked]
    /\ persisted' = [persisted EXCEPT ![c] = <<>>]
    /\ UNCHANGED <<now, store, open, response>>

\* handle_chat has ended and no message of the client is waiting
Return(c) ==
    /\ Returned(c)
    /\ UNCHANGED wire

\* websocket_endpoint(websocket, client_id): manager.connect
ConnectAs(c, client_id) ==
    /\ AllSuspended
    /\ pc[c] = "connect"
    /\ open[c]
    /\ active_connections' = connect(active_connections, c, client_id)
    /\ pc' = [pc EXCEPT ![c] = "receive"]
    /\ UNCHANGED <<now, store, open, local, events, produced, invocation, outcome,
                   before, persisted, response>>
    /\ UNCHANGED wire

\* the connection is opened with its own client id
Connect(c) == ConnectAs(c, ClientOf(c))

\* the client closes the transport of c
Close(c) ==
    /\ AllSuspended
    /\ open[c]
    /\ pc[c] \notin {"connect", "closed"}
    /\ open' = [open EXCEPT ![c] = FALSE]
    /\ UNCHANGED <<now, store, active_connections, task, response>>
    /\ UNCHANGED wire

\* receive_json raises WebSocketDisconnect (339-340)
ReceiveDisconnectAs(c, client_id) ==
    /\ AllSuspended
    /\ pc[c] = "receive"
    /\ ~open[c]
    /\ active_connections' = disconnect(active_connections, client_id)
    /\ pc' = [pc EXCEPT ![c] = "closed"]
    /\ UNCHANGED <<now, store, open, local, events, produced, invocation, outcome,
                   before, persisted, response>>
    /\ UNCHANGED wire

\* the connection was opened with its own client id
ReceiveDisconnect(c) == ReceiveDisconnectAs(c, ClientOf(c))

\* the task is suspended in the receive_json of the loop, or is anywhere in
\* its turn
AwaitingOrInTurn(c) == pc[c] \notin {"connect", "closed", "done"}

\* the task of c is suspended in the receive_json of the loop (line 305)
Awaiting(c) == pc[c] = "receive"

\* data.get("session_id"): absent (<<>>), or the id of the first
\* millisecond, which the store may or may not hold
GivenSessionIds == {<<>>, <<SessionIdAt(0)>>}

\* the chat messages a client may send
ChatData ==
    [message : MessageValues, session_id : GivenSessionIds,
     work_dir : WorkDirs, auto_accept : BOOLEAN, selected_file : {NoFile}]

\* the chat messages of a client that has selected a file
ChatDataWithFile ==
    [message : {JStr(<<"h">>)}, session_id : GivenSessionIds,
     work_dir : WorkDirs, auto_accept : {FALSE}, selected_file : SelectedFiles]

\* any session_id given counts as known
AnySessionGiven(ss, sid) == sid # <<>>

\* line 359: session_id and session_id in session_manager.sessions
KnownSession(ss, sid) == sid # <<>> /\ sid[1] \in DOMAIN ss

\* receive_json returns a chat message: handle_chat up to its first await
\* (lines 347-367, and on to 563 when the session is known)
HandleChat(c, data, o, t) ==
    /\ AllSuspended
    /\ Awaiting(c)
    /\ open[c]
    /\ now' = IF data.message.t = "str" /\ ~KnownSession(sessions, data.session_id)
              THEN t ELSE now
    /\ UNCHANGED <<open, active_connections, produced, response>>
    /\ IF data.message.t # "str"
       THEN \* message[:50] raises outside the try block
            /\ pc' = [pc EXCEPT ![c] = "done"]
            /\ outcome' = [outcome EXCEPT ![c] = "raised"]
            /\ UNCHANGED <<store, local, events, invocation, before, persisted>>
       ELSE LET loc == [NoLocals EXCEPT !.message = data.message.s,
                                        !.given = data.session_id,
                                        !.auto_accept = data.auto_accept,
                                        !.selected_file = data.selected_file]
            IN  /\ before' = [before EXCEPT ![c] =
                      [ids |-> DOMAIN sessions,
                       messages |-> IF data.session_id # <<>>
                                       /\ data.session_id[1] \in DOMAIN sessions
                                    THEN sessions[data.session_id[1]].messages
                                    ELSE <<>>]]
                /\ IF KnownSession(sessions, data.session_id)
                   THEN PersistUserTurn(
                            c, [loc EXCEPT !.session_id = data.session_id[1]], <<>>, o)
                   ELSE LET st == create_session(sessions, disk, data.work_dir, t, o)
                            new == [loc EXCEPT !.session_id = SessionIdAt(t)]
                        IN  /\ sessions' = st.sessions
                            /\ disk' = st.disk
                            /\ UNCHANGED persisted
                            /\ IF st.raised
                               THEN Except(c, new, <<>>, "save")
                               ELSE Send(c, new, <<>>,
                                         SessionCreatedEvent(new.session_id),
                                         "session_created", "none")

\* a chat message is received while the store has room for its two turns
ReceiveChat(c, data, o, t) ==
    /\ CountMessages(sessions, DOMAIN sessions) + 2 <= MaxMessages
    /\ HandleChat(c, data, o, t)
    /\ UNCHANGED wire

\* after `session_created` was sent: lines 369-563
AfterSessionCreated(c, o) ==
    /\ AllSuspended
    /\ pc[c] = "session_created"
    /\ PersistUserTurn(c, local[c], events[c], o)
    /\ UNCHANGED <<now, open, active_connections, produced, before, response>>
    /\ UNCHANGED wire

\* Session.create (595-600): the invocation opens, or the runtime raises
OpenInvocation(c, ok) ==
    /\ AllSuspended
    /\ pc[c] = "thinking"
    /\ IF ok
       THEN /\ invocation' = [invocation EXCEPT ![c] = "open"]
            /\ pc' = [pc EXCEPT ![c] = "stream"]
            /\ UNCHANGED <<local, events, outcome>>
       ELSE Except(c, local[c], events[c], "runtime")
    /\ UNCHANGED <<now, store, open, active_connections, produced, before, persisted,
                   response>>
    /\ UNCHANGED wire

\* the accumulator keeps the first fragment only
AccumulateFirst(full_response, text) ==
    IF full_response = <<>> THEN text ELSE full_response

\* the accumulator keeps the last fragment only
AccumulateLast(full_response, text) == text

\* full_response += text
Accumulate(full_response, text) == full_response \o text

\* the runtime yields a TextPart (611-621)
OnTextPart(c, text) ==
    /\ AllSuspended
    /\ pc[c] = "stream"
    /\ Len(produced[c]) < MaxStream
    /\ produced' = [produced EXCEPT ![c] = Append(@, TextPart(text))]
    /\ IF text # <<>>
       THEN Send(c, [local[c] EXCEPT !.full_response = Accumulate(@, text)],
                 events[c], StreamEvent(text, local[c].session_id), "stream", "open")
       ELSE UNCHANGED <<local, events, pc, invocation, outcome>>
    /\ UNCHANGED <<now, store, open, active_connections, before, persisted, response>>
    /\ UNCHANGED wire

\* the runtime yields a ToolCall (623-675): the entry is appended to
\* tools_used and `tool_call` is sent
OnToolCall(c, f) ==
    /\ AllSuspended
    /\ pc[c] = "stream"
    /\ Len(produced[c]) < MaxStream
    /\ produced' = [produced EXCEPT ![c] = Append(@, ToolCall(f))]
    /\ Send(c, [local[c] EXCEPT !.tools_used = AppendUse(@, f)], events[c],
            ToolCallEvent(ToolName(f), ToolArgs(f), local[c].session_id),
            IF ToolName(f) \in file_modifying_tools THEN "tool_call" ELSE "stream",
            "open")
    /\ UNCHANGED <<now, store, open, active_connections, before, persisted, response>>
    /\ UNCHANGED wire

\* after `tool_call` of a file-modifying tool was sent (678-688)
NotifyFileModified(c) ==
    /\ AllSuspended
    /\ pc[c] = "tool_call"
    /\ LET use == local[c].tools_used[Len(local[c].tools_used)]
       IN  IF use.args.t # "dict"
           THEN \* tool_args.get raises AttributeError
                Except(c, local[c], events[c], "attribute")
           ELSE IF TargetPath(use.args) # ""
           THEN Send(c, local[c], events[c],
                     FileModifiedEvent(TargetPath(use.args), use.tool,
                                       local[c].session_id),
                     "stream", "open")
           ELSE /\ pc' = [pc EXCEPT ![c] = "stream"]
                /\ UNCHANGED <<local, events, invocation, outcome>>
    /\ UNCHANGED <<now, store, open, active_connections, produced, before, persisted,
                   response>>
    /\ UNCHANGED wire

\* the request is resolved to `deny`
ResolveDeny(ws, decision) ==
    [ws EXCEPT ![Len(ws)].resolved = Append(@, "deny")]

\* wire_msg.resolve(decision) on the last wire message
Resolve(ws, decision) ==
    [ws EXCEPT ![Len(ws)].resolved = Append(@, decision)]

\* the client is asked whatever the turn was configured with
ApprovalEventAsking(auto_accept) == ApprovalRequestEvent

\* the event an approval request is answered with to the client
ApprovalEvent(auto_accept) ==
    IF auto_accept THEN ToolApprovedEvent ELSE ApprovalRequestEvent

\* the runtime yields an ApprovalRequest (690-702): with auto_accept it is
\* resolved and `tool_approved` is sent; otherwise `approval_request` is
\* sent
OnApprovalRequest(c) ==
    /\ AllSuspended
    /\ pc[c] = "stream"
    /\ Len(produced[c]) < MaxStream
    /\ LET ws == Append(produced[c], ApprovalRequest)
       IN  produced' = [produced EXCEPT ![c] =
                           IF local[c].auto_accept THEN Resolve(ws, "approve") ELSE ws]
    /\ Send(c, local[c], events[c], ApprovalEvent(local[c].auto_accept),
            IF local[c].auto_accept THEN "stream" ELSE "approval_request", "open")
    /\ UNCHANGED <<now, store, open, active_connections, before, persisted, response>>
    /\ UNCHANGED wire

\* after `approval_request` was sent (703-704): the request is resolved
\* without a decision of the client
ResolveAfterAsking(c) ==
    /\ AllSuspended
    /\ pc[c] = "approval_request"
    /\ produced' = [produced EXCEPT ![c] = Resolve(@, "approve")]
    /\ pc' = [pc EXCEPT ![c] = "stream"]
    /\ UNCHANGED <<now, store, open, active_connections, local, events, invocation,
                   outcome, before, persisted, response>>
    /\ UNCHANGED wire

\* the runtime raises while the stream is consumed
StreamRaises(c) ==
    /\ AllSuspended
    /\ pc[c] = "stream"
    /\ Except(c, local[c], events[c], "runtime")
    /\ UNCHANGED <<now, store, open, active_connections, produced, before, persisted,
                   response>>
    /\ UNCHANGED wire

\* the stream is exhausted (706-714): the invocation is released, the
\* assistant turn is added and `complete` is sent
StreamExhausted(c, o) ==
    /\ AllSuspended
    /\ pc[c] = "stream"
    /\ LET loc == local[c]
           st  == add_message(sessions, disk, loc.session_id, "assistant",
                              loc.full_response, loc.tools_used, o)
       IN  /\ sessions' = st.sessions
           /\ disk' = st.disk
           /\ persisted' = [persisted EXCEPT ![c] =
                 Added(sessions, loc.session_id, @,
                       [role |-> "assistant", content |-> loc.full_response,
                        tools_used |-> loc.tools_used])]
           /\ IF st.raised
              THEN Except(c, loc, events[c], "save")
              ELSE Send(c, loc, events[c],
                        CompleteEvent(loc.full_response, loc.session_id,
                                      loc.tools_used),
                        "done", "released")
    /\ UNCHANGED <<now, open, active_connections, produced, before, response>>
    /\ UNCHANGED wire

\* ------------------------------------------------------------- HTTP API
\* what a request handler returned
Response(op, id, status) == [op |-> op, id |-> id, status |-> status]

\* POST /task (219-240)
CreateTask(w, sid, o, t) ==
    /\ AllSuspended
    /\ now' = t
    /\ IF KnownSession(sessions, sid)
       THEN /\ UNCHANGED store
            /\ response' = Response("create_task", sid[1], "created")
       ELSE LET st == create_session(sessions, disk, w, t, o)
            IN  /\ sessions' = st.sessions
                /\ disk' = st.disk
                /\ response' = Response("create_task", SessionIdAt(t),
                                        IF st.raised THEN "raised" ELSE "created")
    /\ UNCHANGED <<active_connections, open, task>>
    /\ UNCHANGED wire

\* DELETE /sessions/{session_id} (266-275)
DeleteSession(id) ==
    /\ AllSuspended
    /\ LET st == delete_session(sessions, disk, id)
       IN  /\ sessions' = st.sessions
           /\ disk' = st.disk
    /\ response' = Response("delete_session", id, delete_status(sessions, id))
    /\ UNCHANGED <<now, active_connections, open, task>>
    /\ UNCHANGED wire

\* GET /sessions (242-256)
ListSessions ==
    /\ AllSuspended
    /\ response' = [op |-> "list_sessions", id |-> 0, status |-> "ok",
                    sessions |-> Listing(sessions)]
    /\ UNCHANGED <<now, store, active_connections, open, task>>
    /\ UNCHANGED wire

\* session_manager.add_message(id, role, content) called on the store
AddTurn(id, role, content, o) ==
    /\ AllSuspended
    /\ LET st == add_message(sessions, disk, id, role, content, <<>>, o)
       IN  /\ sessions' = st.sessions
           /\ disk' = st.disk
    /\ response' = Response("add_message", id, "none")
    /\ UNCHANGED <<now, active_connections, open, task>>
    /\ UNCHANGED wire

\* add_message is called while the store has room for the turn
AddMessage(id, role, content, o) ==
    /\ CountMessages(sessions, DOMAIN sessions) < MaxMessages
    /\ AddTurn(id, role, content, o)

\* ------------------------------------------------ ConnectionManager
\* how a call of a method of the manager ended
ManagerReturn(op, client_id, status) ==
    [op |-> op, client_id |-> client_id, status |-> status]

\* manager.connect(websocket, client_id) on an open connection c
ManagerConnect(c, client_id) ==
    /\ AllSuspended
    /\ open[c]
    /\ active_connections' = connect(active_connections, c, client_id)
    /\ response' = ManagerReturn("connect", client_id, "ok")
    /\ UNCHANGED <<now, store, open, task>>
    /\ UNCHANGED wire

\* manager.disconnect(client_id)
ManagerDisconnect(client_id) ==
    /\ AllSuspended
    /\ active_connections' = disconnect(active_connections, client_id)
    /\ response' = ManagerReturn("disconnect", client_id, "ok")
    /\ UNCHANGED <<now, store, open, task>>
    /\ UNCHANGED wire

\* manager.send_message(client_id, message) (293-295): send_json on the
\* registered connection, which raises when its transport is closed;
\* nothing when none is registered
ManagerSend(client_id, message) ==
    /\ AllSuspended
    /\ \A c \in Conns : Len(events[c]) < MaxStream
    /\ IF client_id \in DOMAIN active_connections
       THEN LET c == active_connections[client_id]
            IN  IF open[c]
                THEN /\ events' = [events EXCEPT ![c] = Append(@, message)]
                     /\ response' = ManagerReturn("send_message", client_id, "sent")
                ELSE /\ UNCHANGED events
                     /\ response' = ManagerReturn("send_message", client_id, "raised")
       ELSE /\ UNCHANGED events
            /\ response' = ManagerReturn("send_message", client_id, "dropped")
    /\ UNCHANGED <<now, store, active_connections, open, pc, local, produced,
                   invocation, outcome, before, persisted>>
    /\ UNCHANGED wire

\* the client of connection c closes its transport
TransportClosed(c) ==
    /\ AllSuspended
    /\ open[c]
    /\ open' = [open EXCEPT ![c] = FALSE]
    /\ UNCHANGED <<now, store, active_connections, task, response>>
    /\ UNCHANGED wire

\* ------------------------------------------------- messages of a client
\* the task of c is inside handle_chat
InHandleChat(c) == pc[c] \notin {"connect", "receive", "closed"}

\* a message as the client sent it: seq is its place among the messages of
\* its connection, during the number of the handle_chat call of that
\* connection that was running when it was sent (0 when none was)
Mail(kind, seq, during) == [kind |-> kind, seq |-> seq, during |-> during]

\* a message as it was received: after is the number of handle_chat calls
\* of the connection that had ended, inflight the connections whose
\* runtime invocation was open
Served(m, after, inflight) ==
    [kind |-> m.kind, seq |-> m.seq, during |-> m.during, after |-> after,
     inflight |-> inflight]

\* the client of c sends a message; it waits in the transport until the
\* task of c calls receive_json
ClientSends(c, kind) ==
    /\ AllSuspended
    /\ open[c]
    /\ pc[c] \notin {"connect", "closed"}
    /\ inbox' = [inbox EXCEPT ![c] =
          Append(@, Mail(kind, Len(served[c]) + Len(inbox[c]) + 1,
                         IF InHandleChat(c) THEN ended[c] + 1 ELSE 0))]
    /\ UNCHANGED <<now, store, active_connections, open, task, response, served,
                   ended, user_settings>>

\* receive_json returns the oldest message that waits
Receive(c, kind) ==
    /\ AllSuspended
    /\ Awaiting(c)
    /\ inbox[c] # <<>>
    /\ Head(inbox[c]).kind = kind
    /\ inbox' = [inbox EXCEPT ![c] = Tail(@)]
    /\ served' = [served EXCEPT ![c] =
          Append(@, Served(Head(inbox[c]), ended[c],
                           {d \in Conns : invocation[d] = "open"}))]

\* the reply is sent twice
AcknowledgeTwice(c, ev) ==
    /\ events' = [events EXCEPT ![c] = IF open[c] THEN <<ev, ev>> ELSE <<>>]
    /\ pc' = [pc EXCEPT ![c] = IF open[c] THEN "receive" ELSE "closed"]
    /\ active_connections' =
          IF open[c] THEN active_connections
          ELSE disconnect(active_connections, ClientOf(c))

\* await websocket.send_json(ev) in the loop of websocket_endpoint
\* (328-331, 335-338): when the send raises, the client is unregistered
\* and the task ends (341-343)
Acknowledge(c, ev) ==
    /\ events' = [events EXCEPT ![c] = IF open[c] THEN <<ev>> ELSE <<>>]
    /\ pc' = [pc EXCEPT ![c] = IF open[c] THEN "receive" ELSE "closed"]
    /\ active_connections' =
          IF open[c] THEN active_connections
          ELSE disconnect(active_connections, ClientOf(c))

\* a chat message is received (306-307)
ReceiveMailedChat(c, data, o, t) ==
    /\ Receive(c, "chat")
    /\ HandleChat(c, data, o, t)
    /\ UNCHANGED <<ended, user_settings>>

\* an abort message is received (333-338)
ReceiveAbort(c) ==
    /\ Receive(c, "abort")
    /\ Acknowledge(c, AbortedEvent)
    /\ UNCHANGED <<now, store, open, local, produced, invocation, outcome, before,
                   persisted, response, ended, user_settings>>

\* the settings a settings message may carry: "" is an absent or empty value
SettingsValues == [model : {"", "m"}, api_key : {"", "k"}]
DEFAULT_MODEL == "default"

\* lines 312-319: user_settings after a settings message
UpdatedSettings(us, settings) ==
    LET chosen == IF settings.model # "" THEN [us EXCEPT !.model = settings.model]
                  ELSE us
    IN  IF settings.api_key # ""
        THEN [api_key |-> settings.api_key,
              model |-> IF settings.model # "" THEN settings.model
                        ELSE IF chosen.model # "" THEN chosen.model
                        ELSE DEFAULT_MODEL]
        ELSE chosen

\* a settings message is received (308-332)
ReceiveSettings(c, settings) ==
    /\ Receive(c, "settings")
    /\ user_settings' = UpdatedSettings(user_settings, settings)
    /\ Acknowledge(c, SettingsUpdatedEvent)
    /\ UNCHANGED <<now, store, open, local, produced, invocation, outcome, before,
                   persisted, response, ended>>

\* handle_chat has ended while messages of the client may be waiting
ReturnToLoop(c) ==
    /\ Returned(c)
    /\ ended' = [ended EXCEPT ![c] = @ + 1]
    /\ UNCHANGED <<inbox, served, user_settings>>

\* ------------------------------------------------------- specifications
\* one step of the tasks serving the connections C
Task(C) ==
    \/ \E c \in C : Connect(c)
    \/ \E c \in C : Close(c)
    \/ \E c \in C : ReceiveDisconnect(c)
    \/ \E c \in C, data \in ChatData, o \in DiskOutcomes, t \in TurnReadings(now) :
          ReceiveChat(c, data, o, t)
    \/ \E c \in C, o \in DiskOutcomes : AfterSessionCreated(c, o)
    \/ \E c \in C, ok \in BOOLEAN : OpenInvocation(c, ok)
    \/ \E c \in C, text \in Fragments : OnTextPart(c, text)
    \/ \E c \in C, f \in ToolFunctions : OnToolCall(c, f)
    \/ \E c \in C : NotifyFileModified(c)
    \/ \E c \in C : OnApprovalRequest(c)
    \/ \E c \in C : ResolveAfterAsking(c)
    \/ \E c \in C : StreamRaises(c)
    \/ \E c \in C, o \in DiskOutcomes : StreamExhausted(c, o)
    \/ \E c \in C : Return(c)

\* the server with one client connected and chatting
Next == Task({"c1"})

Spec == Init /\ [][Next]_vars

\* the session store under the calls of the HTTP API
NextStore ==
    \/ \E w \in WorkDirs, sid \in {<<>>} \cup {<<i>> : i \in Ids}, o \in DiskOutcomes,
          t \in Readings(now) :
          CreateTask(w, sid, o, t)
    \/ \E id \in Ids : DeleteSession(id)
    \/ \E id \in Ids, role \in {"user", "assistant"}, content \in {<<"h">>, <<"a">>},
          o \in DiskOutcomes :
          AddMessage(id, role, content, o)

SpecStore == Init /\ [][NextStore]_vars

\* ------------------------------------------------------------- properties
\* the positions of the events of the given types in evs
At(evs, types) == {i \in 1..Len(evs) : evs[i].type \in types}

\* a turn of c is running or has just ended
InTurn(c) == pc[c] \notin {"connect", "receive", "closed"}

\* the text of the stream events of evs, in order
RECURSIVE StreamedText(_)
StreamedText(evs) ==
    IF evs = <<>> THEN <<>>
    ELSE (IF Head(evs).type = "stream" THEN Head(evs).content ELSE <<>>)
         \o StreamedText(Tail(evs))

\* the text of the TextParts of the wire messages ws, in order
RECURSIVE ProducedText(_)
ProducedText(ws) ==
    IF ws = <<>> THEN <<>>
    ELSE (IF Head(ws).kind = "TextPart" THEN Head(ws).text ELSE <<>>)
         \o ProducedText(Tail(ws))

\* C1: every turn that has ended sent exactly one `complete` or `error`
\* event, that event is the last event of the turn, and no turn ever holds
\* two of them
ExactlyOneTerminalEvent ==
    \A c \in Conns :
        /\ Cardinality(At(events[c], {"complete", "error"})) <= 1
        /\ \A i \in At(events[c], {"complete", "error"}) : i = Len(events[c])
        /\ pc[c] = "done" => At(events[c], {"complete", "error"}) # {}

\* the events a runtime event is forwarded as
IsForwarded(ev) ==
    ev.type \in {"stream", "tool_call", "approval_request", "tool_approved"}
Forwarded(evs) == SelectSeq(evs, IsForwarded)

\* the client event one wire message stands for in a turn on session sid
ImageOf(m, sid, auto_accept) ==
    CASE m.kind = "TextPart" ->
            [type |-> "stream", content |-> m.text, session_id |-> sid]
      [] m.kind = "ToolCall" ->
            [type |-> "tool_call", tool |-> ToolName(m.function),
             args |-> ToolArgs(m.function), session_id |-> sid]
      [] OTHER ->
            IF auto_accept THEN [type |-> "tool_approved", auto |-> TRUE]
            ELSE [type |-> "approval_request"]

IsNonEmpty(m) == m.kind = "TextPart" => m.text # <<>>

\* evs is the image of the wire messages ws, less the last one when the
\* turn broke off while forwarding it
IsImage(evs, ws, c) ==
    /\ Len(evs) \in {Len(ws), Len(ws) - 1}
    /\ \A i \in 1..Len(evs) :
          evs[i] = ImageOf(ws[i], local[c].session_id, local[c].auto_accept)
    /\ Len(evs) < Len(ws) => pc[c] = "done" /\ outcome[c] # "complete"

\* C2 as stated: the forwarded events of a turn are, in order, the images
\* of all the wire messages the runtime produced, one `stream` event for
\* each text fragment
EveryFragmentForwarded ==
    \A c \in Conns : IsImage(Forwarded(events[c]), produced[c], c)

\* C2: the forwarded events of a turn are, in order, the images of the wire
\* messages the runtime produced that are not empty text fragments, one
\* `stream` event carrying exactly that fragment for each of them
NonEmptyFragmentsForwardedInOrder ==
    \A c \in Conns :
        IsImage(Forwarded(events[c]), SelectSeq(produced[c], IsNonEmpty), c)

\* the runtime produced an empty text fragment and then a tool call, and
\* the turn has forwarded what it forwards of them
ForwardedAfterEmptyFragment ==
    \E c \in Conns :
        /\ Len(produced[c]) = 2
        /\ produced[c][1] = TextPart(<<>>)
        /\ produced[c][2].kind = "ToolCall"
        /\ Len(Forwarded(events[c])) = 1
        /\ Forwarded(events[c])[1].type = "tool_call"

\* C3: the content of a `complete` event is the concatenation, in order, of
\* the contents of the `stream` events sent before it in the turn
CompleteCarriesStreamedText ==
    \A c \in Conns : \A i \in At(events[c], {"complete"}) :
        events[c][i].content = StreamedText(SubSeq(events[c], 1, i - 1))

\* a turn has completed after two stream events
CompletedAfterTwoFragments ==
    \E c \in Conns :
        /\ At(events[c], {"complete"}) # {}
        /\ Cardinality(At(events[c], {"stream"})) = 2

\* C4: a call of add_message on an existing session leaves the session's
\* messages as they were with the turn of the call appended at the end, and
\* leaves every other session as it was
AddMessageAppendsInCallOrder ==
    [][\A id \in Ids, role \in {"user", "assistant"},
          content \in {<<"h">>, <<"a">>}, o \in DiskOutcomes :
          AddMessage(id, role, content, o) /\ id \in DOMAIN sessions =>
              /\ DOMAIN sessions' = DOMAIN sessions
              /\ sessions'[id].messages =
                    sessions[id].messages \o
                    <<[role |-> role, content |-> content, tools_used |-> <<>>]>>
              /\ \A j \in DOMAIN sessions \ {id} : sessions'[j] = sessions[j]]_vars

\* add_message was called on a session that held a different turn before
TwoTurnsAdded ==
    \E id \in DOMAIN sessions :
        /\ response = Response("add_message", id, "none")
        /\ Len(sessions[id].messages) >= 2
        /\ sessions[id].messages[1] # sessions[id].messages[2]

\* the positions of the assistant turns among the turns a run has added
AssistantTurns(c) ==
    {i \in 1..Len(persisted[c]) : persisted[c][i].role = "assistant"}

\* the run of c has added at most one assistant turn, after the stream was
\* exhausted, holding all the text and all the tool calls of the run, and
\* `complete` is sent only once that turn is added
AssistantTurnIsWholeRun(c) ==
    /\ Cardinality(AssistantTurns(c)) <= 1
    /\ \A i \in AssistantTurns(c) :
          /\ i = Len(persisted[c])
          /\ pc[c] = "done"
          /\ persisted[c][i].content = ProducedText(produced[c])
          /\ persisted[c][i].tools_used = local[c].tools_used
          /\ local[c].session_id \in DOMAIN sessions
          /\ LET msgs == sessions[local[c].session_id].messages
             IN  msgs # <<>> /\ msgs[Len(msgs)] = persisted[c][i]
    /\ At(events[c], {"complete"}) # {} => AssistantTurns(c) # {}

UserTurnFirst(c) ==
    /\ At(events[c], {"thinking"}) # {} \/ invocation[c] # "none" =>
          persisted[c] # <<>>
    /\ persisted[c] # <<>> =>
          /\ persisted[c][1] =
                [role |-> "user", content |-> local[c].message, tools_used |-> <<>>]
          /\ \A i \in 2..Len(persisted[c]) : persisted[c][i].role = "assistant"
          /\ local[c].session_id \in DOMAIN sessions
          /\ sessions[local[c].session_id].messages =
                before[c].messages \o persisted[c]

\* the turn of c has failed after its user turn was added
FailedAfterUserTurn(c) ==
    pc[c] = "done" /\ outcome[c] # "complete" /\ persisted[c] # <<>>

\* C6 as stated: the user turn is added before `thinking` and before the
\* invocation is opened, and a turn that fails after it leaves the session
\* with its earlier turns followed by that user turn and nothing else
OnlyUserTurnAfterFailure ==
    \A c \in Conns :
        /\ UserTurnFirst(c)
        /\ FailedAfterUserTurn(c) => Len(persisted[c]) = 1

\* C6: the user turn is added before `thinking` and before the invocation
\* is opened, and a turn that fails after it leaves the session with its
\* earlier turns followed by that user turn, and by the assistant turn when
\* the failure is that of saving the assistant turn or of sending `complete`
UserTurnRetainedOnFailure ==
    \A c \in Conns :
        /\ UserTurnFirst(c)
        /\ FailedAfterUserTurn(c) /\ Len(persisted[c]) # 1 =>
              /\ Len(persisted[c]) = 2
              /\ \/ events[c][Len(events[c])] = ErrorEvent("save")
                 \/ outcome[c] = "raised" /\ ~open[c]

\* a turn on a session that held a turn already failed in the stream
FailedOnSessionWithHistory ==
    \E c \in Conns :
        /\ FailedAfterUserTurn(c)
        /\ before[c].messages # <<>>
        /\ Len(persisted[c]) = 1
        /\ produced[c] # <<>>
        /\ events[c][Len(events[c])] = ErrorEvent("runtime")

\* the turn of c has gone past the first lines of handle_chat
Resolving(c) == InTurn(c) /\ local[c] # NoLocals

\* the message of the turn of c named a session the store held
GaveKnownSession(c) ==
    local[c].given # <<>> /\ local[c].given[1] \in before[c].ids

\* C7: a turn whose message names no session the store holds creates one
\* and, unless creating it or sending fails, sends `session_created` with
\* its id as the first event, before the user turn is added and before
\* `thinking`; a turn whose message names a
\* session of the store creates none, sends no `session_created` and runs
\* on the session it named
SessionResolvedFirst ==
    \A c \in Conns : Resolving(c) =>
        IF GaveKnownSession(c)
        THEN /\ local[c].session_id = local[c].given[1]
             /\ DOMAIN sessions = before[c].ids
             /\ At(events[c], {"session_created"}) = {}
        ELSE /\ local[c].session_id \in DOMAIN sessions
             /\ At(events[c], {"session_created"}) \subseteq {1}
             /\ events[c] # <<>> /\ events[c][1].type # "error" =>
                   events[c][1] = [type |-> "session_created",
                                   session_id |-> local[c].session_id]
             /\ persisted[c] # <<>> =>
                   At(events[c], {"session_created"}) = {1}

\* a turn created its session and went on to `thinking`, and a later turn
\* ran on that session
TurnOnKnownSession ==
    \E c \in Conns :
        /\ GaveKnownSession(c)
        /\ before[c].messages # <<>>
        /\ At(events[c], {"thinking"}) = {1}

\* C8: in a turn with auto_accept every approval request of the runtime is
\* resolved to approve and answered by `tool_approved` with auto = TRUE (the
\* last one unsent when the connection broke), and `approval_request` is
\* never sent
AutoAcceptNeverAsks ==
    \A c \in Conns : local[c].auto_accept =>
        LET asked == SelectSeq(produced[c], LAMBDA m : m.kind = "ApprovalRequest")
            told  == At(events[c], {"tool_approved"})
        IN  /\ At(events[c], {"approval_request"}) = {}
            /\ \A i \in 1..Len(asked) : asked[i].resolved = <<"approve">>
            /\ \A i \in told : events[c][i].auto = TRUE
            /\ Cardinality(told) <= Len(asked)
            /\ Cardinality(told) < Len(asked) =>
                  /\ Cardinality(told) = Len(asked) - 1
                  /\ pc[c] = "done" /\ ~open[c]

\* a turn with auto_accept has answered two approval requests
AutoApprovedTwice ==
    \E c \in Conns :
        /\ local[c].auto_accept
        /\ Cardinality(At(events[c], {"tool_approved"})) = 2

\* C9: a call of POST /task that creates and saves a session returns an id
\* that no session of the store had, so that no session is replaced
CreateReturnsFreshId ==
    [][\A w \in WorkDirs, sid \in {<<>>} \cup {<<i>> : i \in Ids},
          o \in DiskOutcomes, t \in Clock :
          CreateTask(w, sid, o, t) /\ ~KnownSession(sessions, sid) /\ o = "ok" =>
              response'.id \notin DOMAIN sessions]_vars

\* C10: a delete of a session of the store reports "deleted" and leaves
\* neither the entry nor the file of that id; a delete of any other id
\* reports "not_found" and leaves the store as it was; either way every
\* other session and file is as it was
DeleteRemovesBothCopies ==
    [][\A id \in Ids : DeleteSession(id) =>
          /\ response'.status =
                IF id \in DOMAIN sessions THEN "deleted" ELSE "not_found"
          /\ id \notin DOMAIN sessions'
          /\ id \in DOMAIN sessions => id \notin DOMAIN disk'
          /\ id \notin DOMAIN sessions => UNCHANGED store
          /\ DOMAIN sessions' = DOMAIN sessions \ {id}
          /\ \A j \in DOMAIN sessions' : sessions'[j] = sessions[j]
          /\ DOMAIN disk \ {id} \subseteq DOMAIN disk'
          /\ \A j \in DOMAIN disk \ {id} : disk'[j] = disk[j]]_vars

\* a session was deleted while another one stayed
DeletedOneOfTwo ==
    /\ response.op = "delete_session"
    /\ response.status = "deleted"
    /\ response.id \notin DOMAIN sessions
    /\ response.id \notin DOMAIN disk
    /\ sessions # EmptyDict

\* ------------------------------------------------- turns on one session
\* two clients chatting while the disk, the transports and the runtime work
NextShared ==
    \/ \E c \in Conns : Connect(c)
    \/ \E c \in Conns, data \in ChatData, t \in Readings(now) :
          ReceiveChat(c, data, "ok", t)
    \/ \E c \in Conns : AfterSessionCreated(c, "ok")
    \/ \E c \in Conns : OpenInvocation(c, TRUE)
    \/ \E c \in Conns, text \in Fragments : OnTextPart(c, text)
    \/ \E c \in Conns : StreamExhausted(c, "ok")
    \/ \E c \in Conns : Return(c)

SpecShared == Init /\ [][NextShared]_vars

\* the turn of c has added its user turn and has not sent its terminal event
InFlight(c) ==
    /\ InTurn(c)
    /\ persisted[c] # <<>>
    /\ At(events[c], {"complete", "error"}) = {}

\* C11: no two turns that have added their user turn to the same session
\* are in flight together
OneTurnInFlightPerSession ==
    \A c \in Conns, d \in Conns :
        c # d /\ InFlight(c) /\ InFlight(d) =>
            local[c].session_id # local[d].session_id

\* ------------------------------------------------------ selected files
\* one client chatting about selected files
NextAttach ==
    \/ \E c \in {"c1"} : Connect(c)
    \/ \E c \in {"c1"}, data \in ChatDataWithFile, o \in DiskOutcomes,
          t \in Readings(now) :
          ReceiveChat(c, data, o, t)
    \/ \E c \in {"c1"}, o \in DiskOutcomes : AfterSessionCreated(c, o)
    \/ \E c \in {"c1"}, ok \in BOOLEAN : OpenInvocation(c, ok)
    \/ \E c \in {"c1"} : StreamExhausted(c, "ok")
    \/ \E c \in {"c1"} : Return(c)

SpecAttach == Init /\ [][NextAttach]_vars

\* the size a file of kind k may have and still be attached
Ceiling(k) == IF k = "image" THEN ImageCeiling ELSE TextCeiling

\* C12: once the prompt of a turn is built, an existing selected image or
\* text file of at most the ceiling of its kind is attached, a larger one is
\* left out with a note in the prompt, and the turn has gone on to
\* `thinking` either way
AttachedUpToCeiling ==
    \A c \in Conns :
        LET f == local[c].selected_file
            a == local[c].attachment
        IN  InTurn(c) /\ persisted[c] # <<>> /\ f.kind \in {"image", "text"}
            /\ f.exists /\ At(events[c], {"error"}) = {} =>
                /\ At(events[c], {"thinking"}) # {}
                /\ f.size <= Ceiling(f.kind) =>
                      a.content = IF f.kind = "image" THEN "visual_input"
                                  ELSE "file_content"
                /\ f.size > Ceiling(f.kind) => a.content = "too_large_note"

\* ---------------------------------------------------------- the listing
\* the readings of a clock long enough to create more sessions than the
\* listing returns
ListClock == 0 .. (ListCap + 3) * TicksPerMs - 1

\* the store as sessions are created one reading after the other, the
\* oldest one is deleted and the listing is asked for
NextList ==
    \/ \E w \in WorkDirs, t \in {now, now + 1} \cap ListClock :
          CreateTask(w, <<>>, "ok", t)
    \/ \E id \in DOMAIN sessions :
          (\A j \in DOMAIN sessions : id <= j) /\ DeleteSession(id)
    \/ ListSessions

SpecList == Init /\ [][NextList]_vars

NextRegistry ==
    \/ \E c \in Conns, client_id \in ClientIds : ManagerConnect(c, client_id)
    \/ \E client_id \in ClientIds : ManagerDisconnect(client_id)
    \/ \E client_id \in ClientIds,
          message \in {ThinkingEvent, ErrorEvent("e")} :
          ManagerSend(client_id, message)
    \/ \E c \in Conns : TransportClosed(c)

SpecRegistry == Init /\ [][NextRegistry]_vars

\* C14: connect makes the connection the one registered for the id and
\* leaves the other ids alone; disconnect removes the id and nothing else;
\* send delivers the message to the connection registered for the id, or,
\* when there is none, does nothing and reports no error; send never
\* changes the registry
RegistryKeepsOneHandle ==
    [][/\ \A c \in Conns, id \in ClientIds :
             ManagerConnect(c, id) =>
                 /\ DOMAIN active_connections' = DOMAIN active_connections \cup {id}
                 /\ active_connections'[id] = c
                 /\ \A j \in DOMAIN active_connections \ {id} :
                       active_connections'[j] = active_connections[j]
       /\ \A id \in ClientIds :
             ManagerDisconnect(id) =>
                 /\ DOMAIN active_connections' = DOMAIN active_connections \ {id}
                 /\ \A j \in DOMAIN active_connections' :
                       active_connections'[j] = active_connections[j]
       /\ \A id \in ClientIds, m \in {ThinkingEvent, ErrorEvent("e")} :
             ManagerSend(id, m) =>
                 /\ active_connections' = active_connections
                 /\ response'.status # "raised"
                 /\ IF id \in DOMAIN active_connections
                    THEN events' = [events EXCEPT ![active_connections[id]] =
                                       Append(@, m)]
                    ELSE events' = events]_vars


\* ---- C15
\* C15: after every operation of the store, reloading the session files
\* (load_sessions on the files alone) yields the sessions held in memory: the
\* same ids, each with the same work_dir, created_at and messages.
ReloadYieldsMemory == load_sessions(disk) = sessions


\* ------------------------------------------------------------ tool calls
\* the first chat turn of a server, whose runtime yields tool calls of any
\* shape, with every save succeeding
ToolChatData ==
    [message : {JStr(<<"h">>)}, session_id : {<<>>},
     work_dir : WorkDirs, auto_accept : {FALSE}, selected_file : {NoFile}]

NextTools ==
    \/ Connect("c1")
    \/ Close("c1")
    \/ ReceiveDisconnect("c1")
    \/ \E data \in ToolChatData, t \in Readings(now) :
          DOMAIN sessions = {} /\ ReceiveChat("c1", data, "ok", t)
    \/ AfterSessionCreated("c1", "ok")
    \/ OpenInvocation("c1", TRUE)
    \/ \E f \in ToolPayloads : OnToolCall("c1", f)
    \/ NotifyFileModified("c1")
    \/ StreamExhausted("c1", "ok")
    \/ Return("c1")

SpecTools == Init /\ [][NextTools]_vars


\* the (tool, args) pairs of the tool_call events among evs, in order
UsesOfEvents(evs) ==
    LET sent == SelectSeq(evs, LAMBDA e : e.type = "tool_call")
    IN  [i \in 1..Len(sent) |-> [tool |-> sent[i].tool, args |-> sent[i].args]]

\* the decoded tool calls among the wire messages ws, in order
UsesOfStream(ws) ==
    LET calls == SelectSeq(ws, LAMBDA w : w.kind = "ToolCall")
    IN  [i \in 1..Len(calls) |-> ToolUse(calls[i].function)]

\* the last turn of the session a task works on
LastTurn(c) ==
    LET msgs == sessions[local[c].session_id].messages IN msgs[Len(msgs)]

\* ---- C16
\* C16: when a turn has completed, the tools_used of its `complete` event
\* and of the assistant turn it persisted are the same list, and that list
\* is the (tool, args) pairs of the `tool_call` events sent in the turn, one
\* per tool call the runtime yielded, in the order they were yielded.
ToolsUsedInEmissionOrder ==
    \A c \in Conns :
        outcome[c] = "complete" =>
            LET done == events[c][Len(events[c])]
            IN  /\ done.type = "complete"
                /\ LastTurn(c).role = "assistant"
                /\ done.tools_used = LastTurn(c).tools_used
                /\ done.tools_used = UsesOfEvents(events[c])
                /\ done.tools_used = UsesOfStream(produced[c])

\* a turn has completed after two different tool calls
CompletedAfterTwoToolCalls ==
    /\ outcome["c1"] = "complete"
    /\ Len(local["c1"].tools_used) = 2
    /\ local["c1"].tools_used[1] # local["c1"].tools_used[2]
    /\ Len(UsesOfEvents(events["c1"])) = 2


\* ---- C17
\* the arguments of every tool call yielded so far are absent or a string
\* (of JSON or not)
ArgumentsAreStrings(c) ==
    \A i \in 1..Len(produced[c]) :
        produced[c][i].kind = "ToolCall" =>
            \/ produced[c][i].function.arguments = Absent
            \/ produced[c][i].function.arguments.t = "str"

\* C17: whatever the shape of the payload of a tool call (no function, a
\* mapping or an object; any name; arguments that are no JSON or JSON that
\* is no object), the turn goes on: a turn whose runtime yields such tool
\* calls only, with every save succeeding, sends no `error` event.
ToolCallsNeverAbort ==
    \A c \in Conns :
        ArgumentsAreStrings(c) =>
            \A i \in 1..Len(events[c]) : events[c][i].type # "error"


\* ---- C18
\* the target path of a sent tool call, "" when none can be determined
PathOf(e) == IF e.args.t = "dict" THEN TargetPath(e.args) ELSE ""

\* a `tool_call` event of a file-modifying tool with a target path
NamesModifiedFile(e) ==
    e.type = "tool_call" /\ e.tool \in file_modifying_tools /\ PathOf(e) # ""

\* each `file_modified` event comes right after the `tool_call` event of a
\* file-modifying tool and carries its tool name and target path
FileModifiedOnlyAfterItsToolCall ==
    \A c \in Conns :
        \A i \in 1..Len(events[c]) :
            events[c][i].type = "file_modified" =>
                /\ i > 1
                /\ NamesModifiedFile(events[c][i - 1])
                /\ events[c][i].tool = events[c][i - 1].tool
                /\ events[c][i].file_path = PathOf(events[c][i - 1])

\* each such `tool_call` event is followed at once by `file_modified`,
\* once the task has gone on from it with the transport open
FileModifiedAfterEachSuchToolCall ==
    \A c \in Conns :
        \A i \in 1..Len(events[c]) :
            NamesModifiedFile(events[c][i]) =>
                IF i = Len(events[c])
                THEN pc[c] = "tool_call" \/ ~open[c]
                ELSE events[c][i + 1].type = "file_modified"

\* a `tool_call` event without such a path is not followed by an `error`
\* event
TurnContinuesWithoutPath ==
    \A c \in Conns :
        \A i \in 1..Len(events[c]) :
            (events[c][i].type = "tool_call" /\ ~NamesModifiedFile(events[c][i])
             /\ i < Len(events[c]))
                => events[c][i + 1].type # "error"

\* C18: `file_modified` is sent exactly for the tool calls that name a
\* file-modifying tool and give a non-empty path under path, file_path or
\* file (in that order), right after their `tool_call` event and with that
\* path and tool; after any other tool call nothing is sent for it and the
\* turn continues.
FileModifiedExactlyWhenPathFound ==
    /\ FileModifiedOnlyAfterItsToolCall
    /\ FileModifiedAfterEachSuchToolCall
    /\ TurnContinuesWithoutPath


\* ------------------------------------------------------ approval requests
\* chat turns, with and without auto_accept, whose runtime asks for
\* approvals, with every save succeeding
ApprovalChatData ==
    [message : {JStr(<<"h">>)}, session_id : {<<>>},
     work_dir : WorkDirs, auto_accept : BOOLEAN, selected_file : {NoFile}]

NextApproval ==
    \/ Connect("c1")
    \/ Close("c1")
    \/ ReceiveDisconnect("c1")
    \/ \E data \in ApprovalChatData, t \in Readings(now) :
          ReceiveChat("c1", data, "ok", t)
    \/ AfterSessionCreated("c1", "ok")
    \/ OpenInvocation("c1", TRUE)
    \/ OnTextPart("c1", <<"a">>)
    \/ OnApprovalRequest("c1")
    \/ ResolveAfterAsking("c1")
    \/ StreamRaises("c1")
    \/ StreamExhausted("c1", "ok")
    \/ Return("c1")

SpecApproval == Init /\ [][NextApproval]_vars

\* the approval requests among the wire messages ws, in order
ApprovalsOf(ws) == SelectSeq(ws, LAMBDA w : w.kind = "ApprovalRequest")

\* a turn without auto_accept is under way or has just ended
ManualTurn(c) == InTurn(c) /\ local[c] # NoLocals /\ ~local[c].auto_accept

\* ---- C19
\* C19 as stated: in a turn without auto_accept every approval request has
\* been resolved exactly once, to `approve`, by the time the runtime is
\* asked for its next event or the turn ends.
EveryManualApprovalResolved ==
    \A c \in Conns :
        (ManualTurn(c) /\ pc[c] # "approval_request") =>
            \A i \in 1..Len(ApprovalsOf(produced[c])) :
                ApprovalsOf(produced[c])[i].resolved = <<"approve">>

\* C19, amended: in a turn without auto_accept an approval request is
\* resolved only after its `approval_request` event was sent, once and to
\* `approve`, without input of the client; `tool_approved` is never sent;
\* a request is left unresolved only when it is the last one and either
\* its event was just sent or sending it failed, which ends the turn.
ManualApprovalResolvedOnceAsked ==
    \A c \in Conns :
        ManualTurn(c) =>
            LET reqs  == ApprovalsOf(produced[c])
                asked == Cardinality(At(events[c], {"approval_request"}))
            IN  /\ At(events[c], {"tool_approved"}) = {}
                /\ \A i \in 1..Len(reqs) :
                      /\ reqs[i].resolved \in {<<>>, <<"approve">>}
                      /\ reqs[i].resolved = <<"approve">> => i <= asked
                      /\ reqs[i].resolved = <<>> =>
                            /\ i = Len(reqs)
                            /\ \/ pc[c] = "approval_request" /\ asked = i
                               \/ pc[c] = "done" /\ outcome[c] = "raised"
                                  /\ asked = i - 1

\* the first approval request was asked and resolved, the second was left
\* unresolved because its event could not be sent
AskedOnceThenSendFailed ==
    /\ ManualTurn("c1")
    /\ Len(ApprovalsOf(produced["c1"])) = 2
    /\ ApprovalsOf(produced["c1"])[1].resolved = <<"approve">>
    /\ ApprovalsOf(produced["c1"])[2].resolved = <<>>
    /\ pc["c1"] = "done"


\* ------------------------------------------------ the runtime invocation
\* chat turns that leave the runtime invocation in every way: the stream
\* is exhausted with or without events, the runtime raises, a send or a
\* save fails, a tool call cannot be handled
ReleaseChatData ==
    [message : {JStr(<<"h">>)}, session_id : {<<>>},
     work_dir : WorkDirs, auto_accept : BOOLEAN, selected_file : {NoFile}]

ReleaseToolFunctions ==
    { Function("dict", JName("write_file"), JName("{\"path\": \"f.py\"}")),
      Function("dict", JName("write_file"), JName("[1]")) }

NextRelease ==
    \/ Connect("c1")
    \/ Close("c1")
    \/ ReceiveDisconnect("c1")
    \/ \E data \in ReleaseChatData, t \in Readings(now) :
          ReceiveChat("c1", data, "ok", t)
    \/ AfterSessionCreated("c1", "ok")
    \/ \E ok \in BOOLEAN : OpenInvocation("c1", ok)
    \/ OnTextPart("c1", <<"a">>)
    \/ \E f \in ReleaseToolFunctions : OnToolCall("c1", f)
    \/ NotifyFileModified("c1")
    \/ OnApprovalRequest("c1")
    \/ ResolveAfterAsking("c1")
    \/ StreamRaises("c1")
    \/ \E o \in DiskOutcomes : StreamExhausted("c1", o)
    \/ Return("c1")

SpecRelease == Init /\ [][NextRelease]_vars

\* ---- C20
\* C20: the runtime invocation a turn has opened is released on every way
\* out: it is open only while the stream is consumed, it is released once
\* the turn has ended, and it is no longer open when `complete` or `error`
\* has been sent, whether the stream was exhausted (with or without
\* events) or a failure was raised while consuming it or sending.
InvocationReleasedOnEveryExit ==
    \A c \in Conns :
        /\ invocation[c] = "open" =>
              pc[c] \in {"stream", "tool_call", "approval_request"}
        /\ (pc[c] = "done" /\ produced[c] # <<>>) => invocation[c] = "released"
        /\ At(events[c], {"complete", "error"}) # {} => invocation[c] # "open"
        /\ At(events[c], {"complete"}) # {} => invocation[c] = "released"

\* a turn has ended with `error` after its runtime had yielded an event
ReleasedAfterFailureInStream ==
    /\ pc["c1"] = "done"
    /\ outcome["c1"] = "error"
    /\ produced["c1"] # <<>>
    /\ invocation["c1"] = "released"


\* ------------------------------------------------------- the context text
\* a content of len characters that tells the place n of its turn in the
\* history
Content(n, len) == [i \in 1..len |-> ToString(n)]

\* the lengths of the assistant turns of the history: around the budget
AssistantLengths == {1, AssistantBudget, AssistantBudget + 1}

\* the turns a history may hold before a chat message arrives
MaxHistory == ContextWindow + 1

\* the place of the next turn of the one session of the store
NextPlace == CountMessages(sessions, DOMAIN sessions) + 1

\* the chat message sent when the history holds NextPlace - 1 turns
ContextChatData ==
    [message : {JStr(Content(NextPlace, 1))},
     session_id : IF DOMAIN sessions = {} THEN {<<>>}
                  ELSE {<<id>> : id \in DOMAIN sessions},
     work_dir : WorkDirs, auto_accept : {FALSE}, selected_file : {NoFile}]

\* chat turns on one session whose history grows up to MaxHistory turns:
\* each turn either fails when the runtime is invoked, leaving its user
\* turn, or is answered by an assistant turn
NextContext ==
    \/ Connect("c1")
    \/ \E data \in ContextChatData :
          /\ NextPlace <= MaxHistory + 1
          /\ HandleChat("c1", data, "ok", now)
          /\ UNCHANGED wire
    \/ AfterSessionCreated("c1", "ok")
    \/ OpenInvocation("c1", FALSE)
    \/ Return("c1")
    \/ \E id \in DOMAIN sessions, len \in AssistantLengths :
          /\ pc["c1"] = "receive"
          /\ NextPlace <= MaxHistory
          /\ sessions[id].messages # <<>>
          /\ sessions[id].messages[Len(sessions[id].messages)].role = "user"
          /\ AddTurn(id, "assistant", Content(NextPlace, len), "ok")

SpecContext == Init /\ [][NextContext]_vars

\* the task has built its context and has sent `thinking`
ContextBuilt(c) == pc[c] = "thinking"

\* the turns that precede the last turn of the session of c
PriorTurns(c) == 
    LET msgs == sessions[local[c].session_id].messages
    IN  [i \in 1..(Len(msgs) - 1) |-> msgs[i]]

\* what a turn m has to look like in the context
ExpectedLine(m) ==
    IF m.role = "assistant"
    THEN [label |-> "AI",
          text |-> IF Len(m.content) > 500
                   THEN [j \in 1..501 |-> IF j <= 500 THEN m.content[j] ELSE "..."]
                   ELSE m.content]
    ELSE [label |-> "user", text |-> m.content]

\* ---- C21
\* C21: the context built for a turn is the 10 most recent turns before the
\* user turn just submitted (all of them when there are fewer), oldest
\* first, without that user turn; an assistant turn is its first 500
\* characters and an ellipsis exactly when it is longer than 500
\* characters; with no prior turn the context is empty.
ContextIsLastTenPriorTurns ==
    \A c \in Conns :
        ContextBuilt(c) =>
            LET msgs  == sessions[local[c].session_id].messages
                prior == PriorTurns(c)
                n     == IF Len(prior) < 10 THEN Len(prior) ELSE 10
                ctx   == local[c].context
            IN  /\ msgs[Len(msgs)].role = "user"
                /\ msgs[Len(msgs)].content = local[c].message
                /\ Len(ctx) = n
                /\ \A i \in 1..n : ctx[i] = ExpectedLine(prior[Len(prior) - n + i])
                /\ \A i \in 1..n : ctx[i].text # local[c].message

\* a context was built from 11 prior turns, with an assistant turn cut and
\* one of exactly 500 characters kept whole
ContextOfElevenPriorTurns ==
    /\ ContextBuilt("c1")
    /\ Len(PriorTurns("c1")) = 11
    /\ \E i \in 1..Len(local["c1"].context) :
          /\ local["c1"].context[i].label = "AI"
          /\ Len(local["c1"].context[i].text) = 501
          /\ local["c1"].context[i].text[501] = "..."
    /\ \E i \in 1..Len(local["c1"].context) :
          /\ local["c1"].context[i].label = "AI"
          /\ Len(local["c1"].context[i].text) = 500


\* ------------------------------------------------- messages in arrival order
\* the first client chats, aborts and changes settings; the second client
\* aborts and changes settings while the first one's turns run
MailKinds(c) == IF c = "c1" THEN {"chat", "abort", "settings"}
                ELSE {"abort", "settings"}

\* the messages a client sends: the second client sends fewer
MailOf(c) == IF c = "c1" THEN MaxMail ELSE 1

\* the chat messages of the first client: its first one creates the session
\* of the first millisecond, the later ones name it
MailedChatData ==
    [message : {JStr(<<"h">>)}, session_id : {<<SessionIdAt(0)>>},
     work_dir : WorkDirs, auto_accept : {FALSE}, selected_file : {NoFile}]

NextMail ==
    \/ \E c \in Conns : Connect(c)
    \/ \E c \in Conns : Close(c)
    \/ \E c \in Conns : ReceiveDisconnect(c)
    \/ \E c \in Conns : \E kind \in MailKinds(c) :
          /\ Len(served[c]) + Len(inbox[c]) < MailOf(c)
          /\ ClientSends(c, kind)
    \/ \E c \in Conns, data \in MailedChatData : ReceiveMailedChat(c, data, "ok", now)
    \/ \E c \in Conns : AfterSessionCreated(c, "ok")
    \/ \E c \in Conns : OpenInvocation(c, TRUE)
    \/ \E c \in Conns : StreamExhausted(c, "ok")
    \/ \E c \in Conns : ReturnToLoop(c)
    \/ \E c \in Conns : ReceiveAbort(c)
    \/ \E c \in Conns, settings \in {[model |-> "m", api_key |-> ""]} :
          ReceiveSettings(c, settings)

SpecMail == Init /\ [][NextMail]_vars


\* the task of c has just received a message of this kind
JustReceived(c, kind) ==
    /\ Len(served'[c]) = Len(served[c]) + 1
    /\ served'[c][Len(served'[c])].kind = kind

\* ---- C22
\* C22: receiving an `abort` message sends exactly one `aborted` event on
\* its connection and changes nothing else: the store, the runtime
\* invocations, what the runtime has yielded, the locals and outcomes of
\* the turns and the position and events of every other task stay as they
\* are, so a turn in flight goes on to its own terminal event.
AbortOnlyAcknowledged ==
    [][\A c \in Conns :
          JustReceived(c, "abort") =>
              /\ open[c] => events'[c] = <<AbortedEvent>> /\ pc'[c] = "receive"
              /\ sessions' = sessions /\ disk' = disk
              /\ invocation' = invocation /\ produced' = produced
              /\ local' = local /\ outcome' = outcome /\ persisted' = persisted
              /\ \A d \in Conns \ {c} : pc'[d] = pc[d] /\ events'[d] = events[d]]_vars

\* the first turn of the first client has completed and has persisted its
\* assistant turn, although an abort of the second client was acknowledged
\* while its invocation was open and an abort of its own client, sent
\* during the turn, is waiting
CompletedDespiteAborts ==
    /\ outcome["c1"] = "complete"
    /\ ended["c1"] = 0
    /\ LastTurn("c1").role = "assistant"
    /\ \E i \in 1..Len(served["c2"]) :
          served["c2"][i].kind = "abort" /\ "c1" \in served["c2"][i].inflight
    /\ \E i \in 1..Len(inbox["c1"]) :
          inbox["c1"][i].kind = "abort" /\ inbox["c1"][i].during = 1

\* ---- C25
\* C25: the messages of a connection are received one at a time in the
\* order they were sent: a message sent while a handle_chat call of its
\* connection was running is received only after that call has ended, so
\* while a turn is in flight the last message received is its chat message
\* and `aborted` and `settings_updated` are sent only between turns.
MessagesServedInArrivalOrder ==
    \A c \in Conns :
        /\ \A i \in 1..Len(served[c]) :
              served[c][i].seq = i /\ served[c][i].after >= served[c][i].during
        /\ \A i \in 1..Len(inbox[c]) : inbox[c][i].seq = Len(served[c]) + i
        /\ InHandleChat(c) =>
              /\ served[c] # <<>>
              /\ served[c][Len(served[c])].kind = "chat"
              /\ served[c][Len(served[c])].after = ended[c]
              /\ At(events[c], {"aborted", "settings_updated"}) = {}

\* an abort sent during the first turn of the first client was received
\* after that turn had ended, a chat message sent during it is waiting or
\* was received after it, and a message of the second client was received
\* while the invocation of the first one was open
ServedAfterTheTurnInFlight ==
    /\ \E i \in 1..Len(served["c1"]) :
          /\ served["c1"][i].kind = "abort"
          /\ served["c1"][i].during = 1
          /\ served["c1"][i].after >= 1
    /\ \E i \in 1..Len(served["c1"]) :
          /\ served["c1"][i].kind = "chat"
          /\ served["c1"][i].during = 1
    /\ \E i \in 1..Len(served["c2"]) : "c1" \in served["c2"][i].inflight


\* ------------------------------------------------ delete during a turn
\* a client chats on new sessions while DELETE /sessions/{id} requests are
\* handled between the steps of its turns
DeleteChatData ==
    [message : {JStr(<<"h">>)}, session_id : {<<>>},
     work_dir : WorkDirs, auto_accept : {FALSE}, selected_file : {NoFile}]

NextDelete ==
    \/ Connect("c1")
    \/ \E data \in DeleteChatData, t \in Readings(now) :
          ReceiveChat("c1", data, "ok", t)
    \/ AfterSessionCreated("c1", "ok")
    \/ OpenInvocation("c1", TRUE)
    \/ \E text \in Fragments : OnTextPart("c1", text)
    \/ StreamExhausted("c1", "ok")
    \/ Return("c1")
    \/ \E id \in Ids : DeleteSession(id)

SpecDelete == Init /\ [][NextDelete]_vars

\* ---- C23
\* C23: when `complete` has been sent for session S with content C, the
\* store holds S and the last turn of S is an assistant turn with content
\* C, also when S was deleted while the turn was in flight.
CompleteReflectsPersistedTurn ==
    \A c \in Conns :
        outcome[c] = "complete" =>
            LET done == events[c][Len(events[c])]
            IN  /\ done.session_id \in DOMAIN sessions
                /\ sessions[done.session_id].messages # <<>>
                /\ LET msgs == sessions[done.session_id].messages
                   IN  /\ msgs[Len(msgs)].role = "assistant"
                       /\ msgs[Len(msgs)].content = done.content


\* ------------------------------------------ two connections of one client
\* the client id both connections are opened with
SharedClientId == "u1"

\* a client opens two connections with the same client id and closes them
\* in any order, while events are sent to it through the manager
NextSameClient ==
    \/ \E c \in Conns : ConnectAs(c, SharedClientId)
    \/ \E c \in Conns : Close(c)
    \/ \E c \in Conns : ReceiveDisconnectAs(c, SharedClientId)
    \/ \E message \in {ThinkingEvent, ErrorEvent("e")} :
          ManagerSend(SharedClientId, message)

SpecSameClient == Init /\ [][NextSameClient]_vars

\* ---- C24
\* C24: the handle registered for a client id stays registered as long as
\* its connection is open and served: no step in which that connection
\* stays open and its task stays in its receive loop leaves the id without
\* a handle, in particular not the closing of an earlier connection of the
\* same client id whose handle it has replaced.
HandleStaysWhileOpen ==
    [][\A id \in DOMAIN active_connections :
          LET c == active_connections[id]
          IN  (open[c] /\ open'[c] /\ pc[c] = "receive" /\ pc'[c] = "receive")
                  => id \in DOMAIN active_connections']_vars

====
